---------------------------- MODULE Spec2Model ----------------------------
(***************************************************************************)
(* A model of update_cv.py, the Notion -> LaTeX CV generator.              *)
(*                                                                         *)
(* Python values are modelled as follows.                                  *)
(*   str    a sequence of one-character strings ("ab" is <<"a", "b">>), so *)
(*          that escaping, trimming, case folding and splitting work on    *)
(*          characters as the code does;                                   *)
(*   None   the tuple None, which holds a token that is no character and   *)
(*          so differs from every str;                                     *)
(*   dict   a record; d.get(k) is a test of k \in DOMAIN d, and d[k] on a  *)
(*          missing key raises KeyError;                                   *)
(*   list   a sequence; tuple (a, b) the sequence <<a, b>>.                *)
(* The type tag of a block and the keys of a dict are TLA+ strings.        *)
(***************************************************************************)
EXTENDS Integers, Sequences, FiniteSets, TLC

VARIABLES
    pc,                 \* the function being run and the position in it
    text,               \* latex_escape: its argument
    rich_text,          \* rt_to_latex: its argument
    blocks,             \* filter_for_resume_region, convert_blocks_to_latex: argument
    pos,                \* filter_for_resume_region: index of the for loop
    in_resume,          \* filter_for_resume_region: local
    found_for_resume,   \* filter_for_resume_region: local
    filtered,           \* filter_for_resume_region: local
    mode,               \* convert_blocks_to_latex: argument
    i,                  \* convert_blocks_to_latex: index of the while loop
    out,                \* convert_blocks_to_latex: local
    override_text,      \* parse_date_override, get_latest_end_date_from_override: argument
    date_str,           \* parse_date_for_sorting: its argument
    entries,            \* sort_entries_by_date: its argument
    argv,               \* main: the flags of the command line
    environ,            \* main: the environment variables that are set
    cache_file,         \* main: notion_cache.json, <<>> while there is no such file
    cv_data,            \* main: local, <<>> for None and <<d>> for the dict d
    out_file,           \* main: the cv_data last given to render_tex, <<>> before
    status,             \* main: the status returned by the last run
    raised,             \* the exception that left the function, or NoException
    ret                 \* the value the function returned, or None

\* the variables of the sorter and of main
sortVars == <<date_str, entries>>
mainVars == <<argv, environ, cache_file, cv_data, out_file, status>>

vars == <<pc, text, rich_text, blocks, pos, in_resume, found_for_resume,
          filtered, mode, i, out, override_text, date_str, entries,
          argv, environ, cache_file, cv_data, out_file, status, raised, ret>>

----------------------------------------------------------------------------
(* Python values *)

None == <<"None">>

\* bool(x) of a str or None
Truthy(x) == x # None /\ x # <<>>

\* no exception has left the function
NoException == "no exception"

\* d.get(k, default)
dict_get(d, k, default) == IF k \in DOMAIN d THEN d[k] ELSE default

RECURSIVE str_join(_, _)
\* sep.join(parts)
str_join(sep, parts) ==
    IF parts = <<>> THEN <<>>
    ELSE IF Len(parts) = 1 THEN parts[1]
    ELSE parts[1] \o sep \o str_join(sep, Tail(parts))

\* the characters str.strip() removes
Whitespace == {" ", "\t", "\n"}

RECURSIVE str_lstrip(_)
str_lstrip(s) ==
    IF s # <<>> /\ s[1] \in Whitespace THEN str_lstrip(Tail(s)) ELSE s

RECURSIVE str_rstrip(_)
str_rstrip(s) ==
    IF s # <<>> /\ s[Len(s)] \in Whitespace
    THEN str_rstrip(SubSeq(s, 1, Len(s) - 1)) ELSE s

\* s.strip()
str_strip(s) == str_rstrip(str_lstrip(s))

Upper == <<"A", "B", "C", "D", "E", "F", "G", "H", "I", "J", "K", "L", "M",
           "N", "O", "P", "Q", "R", "S", "T", "U", "V", "W", "X", "Y", "Z">>
Lower == <<"a", "b", "c", "d", "e", "f", "g", "h", "i", "j", "k", "l", "m",
           "n", "o", "p", "q", "r", "s", "t", "u", "v", "w", "x", "y", "z">>

chr_lower(c) ==
    IF \E n \in 1..Len(Upper) : Upper[n] = c
    THEN Lower[CHOOSE n \in 1..Len(Upper) : Upper[n] = c]
    ELSE c

\* s.lower()
str_lower(s) == [n \in 1..Len(s) |-> chr_lower(s[n])]

\* s.startswith(p)
str_startswith(s, p) == Len(s) >= Len(p) /\ SubSeq(s, 1, Len(p)) = p

\* s.find(sub): the first index (from 1) where sub occurs in s, 0 when none
str_find(s, sub) ==
    LET hits == {n \in 1..(Len(s) - Len(sub) + 1) :
                    SubSeq(s, n, n + Len(sub) - 1) = sub}
    IN  IF hits = {} THEN 0 ELSE CHOOSE n \in hits : \A m \in hits : n <= m

\* sub in s
str_contains(s, sub) == str_find(s, sub) # 0

RECURSIVE str_replace(_, _, _)
\* s.replace(old, new), old not empty
str_replace(s, old, new) ==
    LET n == str_find(s, old)
    IN  IF n = 0 THEN s
        ELSE SubSeq(s, 1, n - 1) \o new
             \o str_replace(SubSeq(s, n + Len(old), Len(s)), old, new)

RECURSIVE str_split(_, _)
\* s.split(sep), sep not empty
str_split(s, sep) ==
    LET n == str_find(s, sep)
    IN  IF n = 0 THEN <<s>>
        ELSE <<SubSeq(s, 1, n - 1)>>
             \o str_split(SubSeq(s, n + Len(sep), Len(s)), sep)

\* s.split(sep, 1), for an s that holds sep
str_split1(s, sep) ==
    LET n == str_find(s, sep)
    IN  <<SubSeq(s, 1, n - 1), SubSeq(s, n + Len(sep), Len(s))>>

----------------------------------------------------------------------------
(* LaTeX helpers *)

LATEX_SPECIALS_NoTilde ==
    ("\\" :> <<"\\", "t", "e", "x", "t", "b", "a", "c", "k", "s", "l", "a", "s", "h", "{", "}">>)
    @@ ("{" :> <<"\\", "{">>)
    @@ ("}" :> <<"\\", "}">>)
    @@ ("$" :> <<"\\", "$">>)
    @@ ("&" :> <<"\\", "&">>)
    @@ ("#" :> <<"\\", "#">>)
    @@ ("%" :> <<"\\", "%">>)
    @@ ("_" :> <<"\\", "_">>)
    @@ ("^" :> <<"\\", "t", "e", "x", "t", "a", "s", "c", "i", "i", "c", "i", "r", "c", "u", "m", "{", "}">>)

LATEX_SPECIALS ==
    ("\\" :> <<"\\", "t", "e", "x", "t", "b", "a", "c", "k", "s", "l", "a", "s", "h", "{", "}">>)
    @@ ("{" :> <<"\\", "{">>)
    @@ ("}" :> <<"\\", "}">>)
    @@ ("$" :> <<"\\", "$">>)
    @@ ("&" :> <<"\\", "&">>)
    @@ ("#" :> <<"\\", "#">>)
    @@ ("%" :> <<"\\", "%">>)
    @@ ("_" :> <<"\\", "_">>)
    @@ ("~" :> <<"\\", "t", "e", "x", "t", "a", "s", "c", "i", "i", "t", "i", "l", "d", "e", "{", "}">>)
    @@ ("^" :> <<"\\", "t", "e", "x", "t", "a", "s", "c", "i", "i", "c", "i", "r", "c", "u", "m", "{", "}">>)

latex_escape(t) ==
    IF ~Truthy(t) THEN <<>>
    ELSE LET parts == [n \in 1..Len(t) |-> dict_get(LATEX_SPECIALS, t[n], <<t[n]>>)]
         IN  str_join(<<>>, parts)

----------------------------------------------------------------------------
(* Inputs *)

MaxTextLen == 3

RECURSIVE SeqsUpTo(_, _)
\* the sequences of at most n elements of S
SeqsUpTo(S, n) ==
    IF n = 0 THEN {<<>>}
    ELSE LET shorter == SeqsUpTo(S, n - 1)
         IN  shorter \cup {Append(s, x) : s \in shorter, x \in S}

Reserved == {"\\", "{", "}", "$", "&", "#", "%", "_", "~", "^"}

EscapeChars == Reserved \cup {"a", " "}

EscapeInputs == {None} \cup SeqsUpTo(EscapeChars, MaxTextLen)

----------------------------------------------------------------------------
(* The variables of the functions that are not running *)

IdleEscape == text = None
IdleRt == rich_text = <<>>
IdleBlocks == blocks = <<>>
IdleFilter == pos = 0 /\ in_resume = TRUE /\ found_for_resume = FALSE /\ filtered = <<>>
IdleConvert == mode = "paragraphs" /\ i = 0 /\ out = <<>>
IdleDate == override_text = None
IdleSort == date_str = None /\ entries = <<>>
IdleMain ==
    /\ argv = {} /\ environ = {} /\ cache_file = <<>>
    /\ cv_data = <<>> /\ out_file = <<>> /\ status = 0
NoResult == raised = NoException /\ ret = None

----------------------------------------------------------------------------
(* latex_escape *)

InitEscape ==
    /\ pc = "latex_escape"
    /\ text \in EscapeInputs
    /\ IdleRt /\ IdleBlocks /\ IdleFilter /\ IdleConvert /\ IdleDate /\ IdleSort /\ IdleMain /\ NoResult

CallLatexEscape ==
    /\ pc = "latex_escape"
    /\ ret' = latex_escape(text)
    /\ pc' = "escaped"
    /\ UNCHANGED <<sortVars, mainVars>>
    /\ UNCHANGED <<text, rich_text, blocks, pos, in_resume, found_for_resume,
                   filtered, mode, i, out, override_text, raised>>

NextEscape == CallLatexEscape

SpecEscape == InitEscape /\ [][NextEscape]_vars

\* the escape sequence documented for each reserved character
DocumentedEscape(c) ==
    CASE c = "\\" -> <<"\\", "t", "e", "x", "t", "b", "a", "c", "k", "s", "l", "a", "s", "h", "{", "}">>
      [] c = "~" -> <<"\\", "t", "e", "x", "t", "a", "s", "c", "i", "i", "t", "i", "l", "d", "e", "{", "}">>
      [] c = "^" -> <<"\\", "t", "e", "x", "t", "a", "s", "c", "i", "i", "c", "i", "r", "c", "u", "m", "{", "}">>
      [] c \in {"{", "}", "$", "&", "#", "%", "_"} -> <<"\\", c>>
      [] OTHER -> <<c>>

RECURSIVE ImageOffset(_, _)
\* the length of the images of the first n characters of t
ImageOffset(t, n) ==
    IF n = 0 THEN 0 ELSE ImageOffset(t, n - 1) + Len(DocumentedEscape(t[n]))

\* C5: latex_escape maps characters independently and in order: the output is
\* the images of the input's characters laid end to end, a reserved character's
\* image being its documented escape and any other character's being itself;
\* text without reserved characters is unchanged; None and "" give "".
C5_EscapeCharwise ==
    pc = "escaped" =>
        /\ (text = None \/ text = <<>>) => ret = <<>>
        /\ text # None =>
            /\ Len(ret) = ImageOffset(text, Len(text))
            /\ \A n \in 1..Len(text) :
                   SubSeq(ret, ImageOffset(text, n - 1) + 1, ImageOffset(text, n))
                       = DocumentedEscape(text[n])
            /\ (\A n \in 1..Len(text) : text[n] \notin Reserved) => ret = text

\* a reserved character between two plain ones has been escaped in place
C5_Witness ==
    /\ pc = "escaped"
    /\ text = <<"a", "~", " ">>
    /\ ret = <<"a", "\\", "t", "e", "x", "t", "a", "s", "c", "i", "i", "t", "i", "l", "d", "e", "{", "}", " ">>

----------------------------------------------------------------------------
(* Notion rich-text -> LaTeX *)

\* f"\\cmd{{{t}}}"
Wrap(cmd, t) == <<"\\">> \o cmd \o <<"{">> \o t \o <<"}">>

\* f"\\href{{{href}}}{{{t}}}"
WrapHref(href, t) ==
    <<"\\", "h", "r", "e", "f", "{">> \o href \o <<"}", "{">> \o t \o <<"}">>

\* (rt.get("annotations") or {}).get(k), as a truth value
ann_get(rt, k) ==
    /\ "annotations" \in DOMAIN rt
    /\ k \in DOMAIN rt.annotations
    /\ rt.annotations[k]

\* rt.get("href"), as a truth value
has_href(rt) == "href" \in DOMAIN rt /\ Truthy(rt.href)

\* "if ann.get(style): t = f\"\\cmd{{{t}}}\"": t after the statement
styled(rt, style, cmd, t) == IF ann_get(rt, style) THEN Wrap(cmd, t) ELSE t

\* "if rt.get("href"): t = f\"\\href{{{rt['href']}}}{{{t}}}\"": t after the statement
linked(rt, t) == IF has_href(rt) THEN WrapHref(rt.href, t) ELSE t

\* the body of the loop of rt_to_latex with bold applied after italic
rt_span_BoldAfterItalic(rt) ==
    styled(rt, "strikethrough", <<"s", "o", "u", "t">>,
    styled(rt, "underline", <<"u", "l", "i", "n", "e">>,
    styled(rt, "bold", <<"t", "e", "x", "t", "b", "f">>,
    styled(rt, "italic", <<"t", "e", "x", "t", "i", "t">>,
    styled(rt, "code", <<"t", "e", "x", "t", "t", "t">>,
    linked(rt,
    latex_escape(dict_get(rt, "plain_text", <<>>))))))))

\* the body of the loop of rt_to_latex: the text appended to parts for one
\* span. The statements of lines 113-128 apply from the innermost call
\* outwards: escape, link, code, bold, italic, underline, strikethrough.
rt_span(rt) ==
    styled(rt, "strikethrough", <<"s", "o", "u", "t">>,
    styled(rt, "underline", <<"u", "l", "i", "n", "e">>,
    styled(rt, "italic", <<"t", "e", "x", "t", "i", "t">>,
    styled(rt, "bold", <<"t", "e", "x", "t", "b", "f">>,
    styled(rt, "code", <<"t", "e", "x", "t", "t", "t">>,
    linked(rt,
    latex_escape(dict_get(rt, "plain_text", <<>>))))))))

\* rich_text is a list here, for which (rich_text or []) is rich_text
rt_to_latex(rts) ==
    LET list == rts
        parts == [n \in 1..Len(list) |-> rt_span(list[n])]
    IN  str_join(<<>>, parts)

(* Inputs: a span is a dict with the keys plain_text, href and annotations,   *)
(* each of which may be missing; href may be None or empty; annotations holds *)
(* the five style flags, or only some of them.                                *)

MaxSpans == 2

Styles == {"code", "bold", "italic", "underline", "strikethrough"}

Url == <<"u", "_">>

PlainTexts == {<<"a">>, <<"&">>}

Field(k, v) == k :> v

Annotations == [Styles -> BOOLEAN] \cup {Field("bold", TRUE)}

Spans ==
    LET texts == {<<>>} \cup {Field("plain_text", t) : t \in PlainTexts}
        hrefs == {<<>>} \cup {Field("href", h) : h \in {None, <<>>, Url}}
        anns  == {<<>>} \cup {Field("annotations", a) : a \in Annotations}
    IN  {t @@ h @@ a : t \in texts, h \in hrefs, a \in anns}

\* the spans that stand beside the span under study
NeighbourSpans ==
    { Field("plain_text", <<"a">>),
      Field("plain_text", <<"&">>) @@ Field("annotations", [s \in Styles |-> s = "bold"]),
      Field("plain_text", <<"a">>) @@ Field("href", Url),
      Field("plain_text", <<"a">>) @@ Field("href", Url)
          @@ Field("annotations", [s \in Styles |-> s = "italic"]) }

\* the lists of at most MaxSpans spans: any span, among neighbours
RichTexts ==
    {<<>>}
    \cup UNION { { [n \in 1..len |-> IF n = at THEN s ELSE nb[n]] :
                     s \in Spans, at \in 1..len, nb \in [1..len -> NeighbourSpans] }
                 : len \in 1..MaxSpans }

InitRt ==
    /\ pc = "rt_to_latex"
    /\ rich_text \in RichTexts
    /\ IdleEscape /\ IdleBlocks /\ IdleFilter /\ IdleConvert /\ IdleDate /\ IdleSort /\ IdleMain /\ NoResult

CallRtToLatex ==
    /\ pc = "rt_to_latex"
    /\ ret' = rt_to_latex(rich_text)
    /\ pc' = "rendered"
    /\ UNCHANGED <<sortVars, mainVars>>
    /\ UNCHANGED <<text, rich_text, blocks, pos, in_resume, found_for_resume,
                   filtered, mode, i, out, override_text, raised>>

NextRt == CallRtToLatex

SpecRt == InitRt /\ [][NextRt]_vars

\* the rendering of a single span whose href is set
OneLinkedSpan ==
    /\ pc = "rendered"
    /\ Len(rich_text) = 1
    /\ has_href(rich_text[1])

\* \cmd{t} when the style is set on the span, t otherwise
Styled(rt, style, cmd, t) ==
    IF ann_get(rt, style) THEN <<"\\">> \o cmd \o <<"{">> \o t \o <<"}">> ELSE t

\* link-wrap(code-wrap(bold-wrap(italic-wrap(underline-wrap(strike-wrap(text))))))
LinkOutermost(rt) ==
    WrapHref(rt.href,
        Styled(rt, "code", <<"t", "e", "x", "t", "t", "t">>,
        Styled(rt, "bold", <<"t", "e", "x", "t", "b", "f">>,
        Styled(rt, "italic", <<"t", "e", "x", "t", "i", "t">>,
        Styled(rt, "underline", <<"u", "l", "i", "n", "e">>,
        Styled(rt, "strikethrough", <<"s", "o", "u", "t">>,
               latex_escape(dict_get(rt, "plain_text", <<>>))))))))

\* C3: the link wrapper is outermost and code, bold, italic, underline and
\* strikethrough nest inward in that order: a span with a link target and any
\* set of styles renders as link-wrap(code-wrap(bold-wrap(italic-wrap(...)))).
C3_LinkOutermost ==
    OneLinkedSpan => ret = LinkOutermost(rich_text[1])

\* C3, the weaker half: whatever the order of the styles inside, the link
\* construct encloses the whole rendering of a span that has a link target.
C3_LinkEnclosesStyles ==
    OneLinkedSpan =>
        /\ str_startswith(ret, <<"\\", "h", "r", "e", "f", "{">> \o rich_text[1].href \o <<"}", "{">>)
        /\ ret[Len(ret)] = "}"

\* the opening text of a style's wrapper, empty when the style is not set
Opener(rt, style, cmd) ==
    IF ann_get(rt, style) THEN <<"\\">> \o cmd \o <<"{">> ELSE <<>>

\* the number of wrappers around a span's text
Wrappers(rt) ==
    Cardinality({s \in Styles : ann_get(rt, s)}) + (IF has_href(rt) THEN 1 ELSE 0)

\* a span's rendering written from the outside in: the openers of the wrappers
\* applied last come first, the link's opener is next to the text, and one
\* closing brace per wrapper follows the text
OutsideIn(rt) ==
    Opener(rt, "strikethrough", <<"s", "o", "u", "t">>)
    \o Opener(rt, "underline", <<"u", "l", "i", "n", "e">>)
    \o Opener(rt, "italic", <<"t", "e", "x", "t", "i", "t">>)
    \o Opener(rt, "bold", <<"t", "e", "x", "t", "b", "f">>)
    \o Opener(rt, "code", <<"t", "e", "x", "t", "t", "t">>)
    \o (IF has_href(rt)
        THEN <<"\\", "h", "r", "e", "f", "{">> \o rt.href \o <<"}", "{">> ELSE <<>>)
    \o latex_escape(dict_get(rt, "plain_text", <<>>))
    \o [n \in 1..Wrappers(rt) |-> "}"]

RECURSIVE ConcatOutsideIn(_)
ConcatOutsideIn(rts) ==
    IF rts = <<>> THEN <<>> ELSE OutsideIn(Head(rts)) \o ConcatOutsideIn(Tail(rts))

----------------------------------------------------------------------------
(* Notion blocks: a block is a dict with the keys "type", "id" and, under the *)
(* name of its type, its payload                                              *)

\* {"type": tp, tp: payload}
Blk(tp, payload) == Field("type", tp) @@ Field(tp, payload)

\* {"rich_text": [{"plain_text": t} for t in texts]}
RichPayload(texts) ==
    Field("rich_text", [n \in 1..Len(texts) |-> Field("plain_text", texts[n])])

\* the blocks of a page, each with its own id
WithIds(bs) == [n \in 1..Len(bs) |-> bs[n] @@ Field("id", n)]

FOR_RESUME == <<"f", "o", "r", " ", "r", "e", "s", "u", "m", "e">>
NOT_FOR_RESUME == <<"n", "o", "t", " ", "f", "o", "r", " ", "r", "e", "s", "u", "m", "e">>

\* b.get("type") == "heading_1"
is_heading_1(b) == "type" \in DOMAIN b /\ b.type = "heading_1"

\* text_plain of line 203, for a heading_1 block b
text_plain(b) ==
    LET spans == dict_get(b[b.type], "rich_text", <<>>)
    IN  IF spans # <<>>
        THEN str_strip(dict_get(spans[1], "plain_text", <<>>))
        ELSE <<>>

\* tp == "heading_1" and text_plain.lower() == "for resume"
is_for_resume(b) == is_heading_1(b) /\ str_lower(text_plain(b)) = FOR_RESUME

\* tp == "heading_1" and text_plain.lower() == "not for resume"
is_not_for_resume(b) == is_heading_1(b) /\ str_lower(text_plain(b)) = NOT_FOR_RESUME

\* not found_for_resume or in_resume
filter_includes == ~found_for_resume \/ in_resume

(* Inputs *)

MaxBlocks == 3
MaxRegionBlocks == 6

ParagraphA == Blk("paragraph", RichPayload(<<<<"a">>>>))
H1ForResume == Blk("heading_1", RichPayload(<<<<"F", "o", "r", " ", "R", "e", "s", "u", "m", "e">>>>))
H1NotForResume ==
    Blk("heading_1", RichPayload(<<<<"N", "o", "t", " ", "F", "o", "r", " ", "R", "e", "s", "u", "m", "e">>>>))

\* the blocks of the pages given to the region filter
FilterBlocks ==
    { ParagraphA, H1ForResume, H1NotForResume,
      \* other case and surrounding blanks
      Blk("heading_1", RichPayload(<<<<" ", "F", "O", "R", " ", "r", "e", "s", "u", "m", "e", " ">>>>)),
      Blk("heading_1", RichPayload(<<<<"N", "O", "T", " ", "f", "o", "r", " ", "R", "e", "s", "u", "m", "e">>>>)),
      \* level-1 headings with another text, and with no text
      Blk("heading_1", RichPayload(<<<<"O", "t", "h", "e", "r">>>>)),
      Blk("heading_1", RichPayload(<<>>)),
      \* the phrase in a heading of another level
      Blk("heading_2", RichPayload(<<<<"F", "o", "r", " ", "R", "e", "s", "u", "m", "e">>>>)),
      \* level-1 headings of two spans
      Blk("heading_1", RichPayload(<<<<"F", "o", "r", " ", "R", "e", "s", "u", "m", "e">>, <<" ", "x">>>>)),
      Blk("heading_1", RichPayload(<<<<"N", "o", "t", " ", "F", "o", "r", " ", "R", "e", "s", "u", "m", "e">>, <<" ", "x">>>>)),
      Blk("heading_1", RichPayload(<<<<"N", "o", "t", " ", "F", "o", "r">>, <<" ", "R", "e", "s", "u", "m", "e">>>>)) }

\* pages of a few blocks of any kind, and longer pages of paragraphs and the
\* two sentinel headings
FilterInputs ==
    {WithIds(bs) : bs \in SeqsUpTo(FilterBlocks, MaxBlocks)
                       \cup SeqsUpTo({ParagraphA, H1ForResume, H1NotForResume}, MaxRegionBlocks)}

(* filter_for_resume_region *)

InitFilter ==
    /\ pc = "filter_loop"
    /\ blocks \in FilterInputs
    /\ pos = 0
    /\ in_resume = TRUE
    /\ found_for_resume = FALSE
    /\ filtered = <<>>
    /\ IdleEscape /\ IdleRt /\ IdleConvert /\ IdleDate /\ IdleSort /\ IdleMain /\ NoResult

\* one iteration of "for b in blocks"
FilterIterate ==
    /\ pc = "filter_loop"
    /\ pos < Len(blocks)
    /\ pos' = pos + 1
    /\ LET b == blocks[pos + 1]
       IN  IF is_for_resume(b)
           THEN /\ in_resume' = TRUE
                /\ found_for_resume' = TRUE
                /\ UNCHANGED <<filtered, pc>>
           ELSE IF is_not_for_resume(b)
           THEN /\ in_resume' = FALSE
                /\ pc' = "filter_break"
                /\ UNCHANGED <<found_for_resume, filtered>>
           ELSE /\ filtered' = IF filter_includes THEN Append(filtered, b) ELSE filtered
                /\ UNCHANGED <<in_resume, found_for_resume, pc>>
    /\ UNCHANGED <<sortVars, mainVars>>
    /\ UNCHANGED <<text, rich_text, blocks, mode, i, out, override_text, raised, ret>>

\* return filtered, after the last block or the break
FilterReturn ==
    /\ \/ pc = "filter_loop" /\ pos = Len(blocks)
       \/ pc = "filter_break"
    /\ ret' = filtered
    /\ pc' = "filtered"
    /\ UNCHANGED <<sortVars, mainVars>>
    /\ UNCHANGED <<text, rich_text, blocks, pos, in_resume, found_for_resume,
                   filtered, mode, i, out, override_text, raised>>

NextFilter == FilterIterate \/ FilterReturn

SpecFilter == InitFilter /\ [][NextFilter]_vars

\* the whole text of a heading: the plain text of all its spans, trimmed
WholeHeadingText(b) ==
    LET spans == dict_get(b[b.type], "rich_text", <<>>)
    IN  str_strip(str_join(<<>>, [n \in 1..Len(spans) |-> dict_get(spans[n], "plain_text", <<>>)]))

\* a level-1 heading whose text is "for resume", whatever the case
ForResumeH1(b) == is_heading_1(b) /\ str_lower(WholeHeadingText(b)) = FOR_RESUME

\* a level-1 heading whose text is "not for resume", whatever the case
NotForResumeH1(b) == is_heading_1(b) /\ str_lower(WholeHeadingText(b)) = NOT_FOR_RESUME

SentinelH1(b) == ForResumeH1(b) \/ NotForResumeH1(b)

\* the index of the first "Not For Resume" heading of bs, 0 when there is none
FirstNotForResume(bs) ==
    LET at == {n \in 1..Len(bs) : NotForResumeH1(bs[n])}
    IN  IF at = {} THEN 0 ELSE CHOOSE n \in at : \A m \in at : n <= m

\* the first span of every level-1 heading of bs holds the heading's whole text
SingleSpanHeadings(bs) ==
    \A n \in 1..Len(bs) :
        is_heading_1(bs[n]) => Len(dict_get(bs[n][bs[n].type], "rich_text", <<>>)) <= 1

\* C1: for an input pre ++ [H1 "For Resume"] ++ mid ++ [H1 "Not For Resume"]
\* ++ post in which pre, mid and post hold no sentinel heading, the filter
\* returns exactly mid. (Stated on the pages whose level-1 headings have at
\* most one span, where a heading's first span is its whole text.)
C1_OnlyBetweenSentinels ==
    (pc = "filtered" /\ SingleSpanHeadings(blocks)) =>
        \A a, z \in 1..Len(blocks) :
            ( /\ a < z
              /\ ForResumeH1(blocks[a])
              /\ NotForResumeH1(blocks[z])
              /\ \A n \in 1..Len(blocks) : SentinelH1(blocks[n]) => n \in {a, z} )
            => ret = SubSeq(blocks, a + 1, z - 1)

\* C2: the filter includes by default and cuts off for good at the first "Not
\* For Resume" heading: an input without sentinel headings is returned as it
\* is; when no "For Resume" heading precedes the first "Not For Resume"
\* heading, the blocks before that heading are returned; and no block at or
\* after that heading is returned, whatever follows it.
C2_InclusiveUntilCutOff ==
    pc = "filtered" =>
        LET cut == FirstNotForResume(blocks)
        IN  /\ (\A n \in 1..Len(blocks) : ~SentinelH1(blocks[n])) => ret = blocks
            /\ (cut # 0 /\ \A n \in 1..(cut - 1) : ~ForResumeH1(blocks[n]))
                   => ret = SubSeq(blocks, 1, cut - 1)
            /\ cut # 0 => \A n \in 1..Len(ret) : ret[n].id < cut

\* C2 on the pages whose level-1 headings have at most one span: there the
\* statement of C2 holds.
C2_OnSingleSpanHeadings ==
    SingleSpanHeadings(blocks) => C2_InclusiveUntilCutOff

----------------------------------------------------------------------------
(* Notion blocks -> LaTeX body *)

NL == <<"\n">>
ITEM == <<"\\", "i", "t", "e", "m", " ">>
ITEMIZE == <<"i", "t", "e", "m", "i", "z", "e">>
ENUMERATE == <<"e", "n", "u", "m", "e", "r", "a", "t", "e">>

\* f"\\begin{{{env}}}"
Begin(env) == <<"\\", "b", "e", "g", "i", "n", "{">> \o env \o <<"}">>

\* f"\\end{{{env}}}"
End(env) == <<"\\", "e", "n", "d", "{">> \o env \o <<"}">>

PARAGRAPH_LIKE == {"paragraph", "quote", "equation", "code"}
LIST_ITEMS == {"bulleted_list_item", "numbered_list_item"}

\* the type tags that start with "heading_"
HEADINGS == {"heading_1", "heading_2", "heading_3"}

\* "itemize" if lt == "bulleted_list_item" else "enumerate"
env_of_AlwaysItemize(lt) == ITEMIZE

env_of(lt) == IF lt = "bulleted_list_item" THEN ITEMIZE ELSE ENUMERATE

\* a value returned, and an exception raised
Returned(v) == [val |-> v, raised |-> NoException]
Raised(exc) == [val |-> None, raised |-> exc]

\* the first exception among the results rs, NoException when there is none
FirstRaised(rs) ==
    LET bad == {n \in 1..Len(rs) : rs[n].raised # NoException}
    IN  IF bad = {} THEN NoException
        ELSE rs[CHOOSE n \in bad : \A m \in bad : n <= m].raised

\* c.get("type") in ("bulleted_list_item", "numbered_list_item")
is_list_item(c) == "type" \in DOMAIN c /\ c.type \in LIST_ITEMS

\* blocks[j].get("type") == run_type
same_type(b, run_type) == "type" \in DOMAIN b /\ b.type = run_type

\* list_children(notion, block["id"]): the child blocks that Notion holds for
\* the block, kept here in the block under "children"
list_children(block) == dict_get(block, "children", <<>>)

\* text of lines 296-307 for a block of type tp, given the rendered rich text
\* and the escaped expression of its payload
paragraph_like_wrap(tp, inner, expr) ==
    CASE tp = "paragraph" -> inner
      [] tp = "quote" ->
            <<"\\", "b", "e", "g", "i", "n", "{", "q", "u", "o", "t", "e", "}">>
            \o inner \o <<"\\", "e", "n", "d", "{", "q", "u", "o", "t", "e", "}">>
      [] tp = "equation" -> <<"$", " ">> \o expr \o <<" ", "$">>
      [] tp = "code" ->
            <<"\\", "b", "e", "g", "i", "n", "{", "v", "e", "r", "b", "a", "t", "i", "m", "}", "\n">>
            \o inner
            \o <<"\n", "\\", "e", "n", "d", "{", "v", "e", "r", "b", "a", "t", "i", "m", "}">>

\* text of lines 296-307, for a block whose type is paragraph-like
paragraph_like_text(b) ==
    paragraph_like_wrap(b.type,
                        rt_to_latex(dict_get(b[b.type], "rich_text", <<>>)),
                        latex_escape(dict_get(b[b.type], "expression", <<>>)))

\* if text: (the test without the strip)
emits_Unstripped(t) == t # <<>>

\* if text.strip():
emits(t) == str_strip(t) # <<>>

\* lines 309-314: out and i after a paragraph-like block of text t
paragraph_step(m, n, o, t) ==
    [i |-> n + 1,
     out |-> IF emits(t) THEN Append(o, IF m = "items" THEN ITEM \o t ELSE t) ELSE o,
     raised |-> NoException]

\* a run that ends after its first block
run_end_Single(bs, j, run_type) == j

RECURSIVE run_end(_, _, _)
\* j after "while j < len(blocks) and blocks[j].get("type") == run_type: j += 1"
run_end(bs, j, run_type) ==
    IF j < Len(bs) /\ same_type(bs[j + 1], run_type)
    THEN run_end(bs, j + 1, run_type)
    ELSE j

\* lines 325-335: out and i after a run that ends at j, given the results rs
\* of rendering its items
run_step(m, n, j, o, env, rs) ==
    IF FirstRaised(rs) # NoException
    THEN [i |-> n, out |-> o, raised |-> FirstRaised(rs)]
    ELSE [i |-> j,
          out |-> IF m = "items"
                  THEN o \o [k \in 1..Len(rs) |-> rs[k].val]
                  ELSE o \o <<Begin(env)>> \o [k \in 1..Len(rs) |-> rs[k].val] \o <<End(env)>>,
          raised |-> NoException]

\* lines 250-255: the item's body followed by its nested list, given the
\* results rs of rendering the child items
nested_list(body, env, rs) ==
    IF FirstRaised(rs) # NoException THEN Raised(FirstRaised(rs))
    ELSE Returned(body \o NL
                  \o str_join(NL, <<Begin(env)>> \o [k \in 1..Len(rs) |-> rs[k].val]
                                   \o <<End(env)>>))

\* lines 259-263: the item's body followed by the rendering para of its
\* children, when that is not blank
trailing_paragraphs(body, para) ==
    IF para.raised # NoException THEN para
    ELSE IF str_strip(para.val) # <<>> THEN Returned(body \o NL \o para.val)
    ELSE Returned(body)

RECURSIVE _render_list_block_item(_, _, _)
RECURSIVE render_children(_, _, _, _)
RECURSIVE convert_body(_, _, _, _)
RECURSIVE convert_loop(_, _, _, _)
RECURSIVE convert_blocks_to_latex(_, _)

\* lines 244-263, for the children that Notion returned and the list items
\* among them
render_children(body, children, child_items, m) ==
    IF children = <<>> THEN Returned(body)
    ELSE IF child_items # <<>>
    THEN nested_list(body, env_of(child_items[1].type),
                     [k \in 1..Len(child_items) |->
                        _render_list_block_item(child_items[k], child_items[k].type, m)])
    ELSE trailing_paragraphs(body,
             convert_blocks_to_latex(children, IF m = "items" THEN "paragraphs" ELSE m))

_render_list_block_item(block, list_type, m) ==
    IF list_type \notin DOMAIN block THEN Raised("KeyError")
    ELSE IF ~dict_get(block, "has_children", FALSE)
    THEN Returned(ITEM \o rt_to_latex(dict_get(block[list_type], "rich_text", <<>>)))
    ELSE render_children(ITEM \o rt_to_latex(dict_get(block[list_type], "rich_text", <<>>)),
                         list_children(block),
                         SelectSeq(list_children(block), is_list_item), m)

\* one iteration of "while i < len(blocks)": the new i and out, or the
\* exception that leaves the function
convert_body(bs, m, n, o) ==
    LET b == bs[n + 1]
        typed == "type" \in DOMAIN b
    IN  IF typed /\ b.type \in PARAGRAPH_LIKE
        THEN IF b.type \notin DOMAIN b THEN [i |-> n, out |-> o, raised |-> "KeyError"]
             ELSE paragraph_step(m, n, o, paragraph_like_text(b))
        ELSE IF typed /\ b.type \in LIST_ITEMS
        THEN run_step(m, n, run_end(bs, n + 1, b.type), o, env_of(b.type),
                      [k \in 1..(run_end(bs, n + 1, b.type) - n) |->
                         _render_list_block_item(bs[n + k], b.type, m)])
        ELSE IF ~typed
        \* tp is None, and None has no startswith
        THEN [i |-> n, out |-> o, raised |-> "AttributeError"]
        \* tp.startswith("heading_"): a heading is ignored
        ELSE IF b.type \in HEADINGS
        THEN [i |-> n + 1, out |-> o, raised |-> NoException]
        \* a block of another type is skipped
        ELSE [i |-> n + 1, out |-> o, raised |-> NoException]

\* the result of convert_loop after one iteration gave r
convert_next(bs, m, r) ==
    IF r.raised # NoException THEN r ELSE convert_loop(bs, m, r.i, r.out)

\* the while loop from i = n on
convert_loop(bs, m, n, o) ==
    IF n >= Len(bs) THEN [i |-> n, out |-> o, raised |-> NoException]
    ELSE convert_next(bs, m, convert_body(bs, m, n, o))

\* the value returned, or the exception raised, once the loop gave r
convert_result(r) ==
    IF r.raised # NoException THEN Raised(r.raised) ELSE Returned(str_join(NL, r.out))

convert_blocks_to_latex(bs, m) == convert_result(convert_loop(bs, m, 0, <<>>))

(* Inputs *)

MaxMixed == 2
MaxRunBlocks == 4

BulletA == Blk("bulleted_list_item", RichPayload(<<<<"a">>>>))
NumberedB == Blk("numbered_list_item", RichPayload(<<<<"b">>>>))

\* a list item with children
Parent(b, children) == b @@ Field("has_children", TRUE) @@ Field("children", children)

\* the well-formed blocks of a page body
BodyBlocks ==
    { ParagraphA,
      Blk("paragraph", RichPayload(<<>>)),
      Blk("paragraph", RichPayload(<<<<" ">>>>)),
      Blk("quote", RichPayload(<<<<"a">>>>)),
      Blk("quote", RichPayload(<<>>)),
      Blk("equation", Field("expression", <<"x", "_">>)),
      Blk("code", RichPayload(<<<<"a">>>>)),
      BulletA,
      NumberedB,
      Parent(BulletA, <<NumberedB, BulletA>>),
      Parent(NumberedB, <<ParagraphA>>),
      Parent(BulletA, <<>>),
      H1ForResume,
      Blk("heading_2", RichPayload(<<<<"a">>>>)),
      Blk("divider", <<>>) }

\* blocks of malformed shape: no type tag, a known type without its payload,
\* a list item whose child has no type tag
MalformedBlocks ==
    { Field("object", "block"),
      Field("type", "paragraph"),
      Field("type", "bulleted_list_item"),
      Parent(BulletA, <<Field("object", "block")>>) }

\* pages of a few blocks of any shape, and longer pages of list items and
\* paragraphs
ConvertInputs ==
    {WithIds(bs) : bs \in SeqsUpTo(BodyBlocks \cup MalformedBlocks, MaxMixed)
                       \cup SeqsUpTo({BulletA, NumberedB, ParagraphA,
                                      Parent(BulletA, <<NumberedB, BulletA>>)}, MaxRunBlocks)}

(* convert_blocks_to_latex *)

InitConvert ==
    /\ pc = "convert_loop"
    /\ blocks \in ConvertInputs
    /\ mode \in {"items", "paragraphs"}
    /\ i = 0
    /\ out = <<>>
    /\ IdleEscape /\ IdleRt /\ IdleFilter /\ IdleDate /\ IdleSort /\ IdleMain /\ NoResult

\* one iteration of "while i < len(blocks)"
ConvertIterate ==
    /\ pc = "convert_loop"
    /\ i < Len(blocks)
    /\ \E r \in {convert_body(blocks, mode, i, out)} :
           /\ i' = r.i
           /\ out' = r.out
           /\ raised' = r.raised
           /\ pc' = IF r.raised # NoException THEN "convert_raised" ELSE pc
    /\ UNCHANGED <<sortVars, mainVars>>
    /\ UNCHANGED <<text, rich_text, blocks, pos, in_resume, found_for_resume,
                   filtered, mode, override_text, ret>>

\* return "\n".join(out)
ConvertReturn ==
    /\ pc = "convert_loop"
    /\ i >= Len(blocks)
    /\ ret' = str_join(NL, out)
    /\ pc' = "converted"
    /\ UNCHANGED <<sortVars, mainVars>>
    /\ UNCHANGED <<text, rich_text, blocks, pos, in_resume, found_for_resume,
                   filtered, mode, i, out, override_text, raised>>

NextConvert == ConvertIterate \/ ConvertReturn

SpecConvert == InitConvert /\ [][NextConvert]_vars

\* the loop taken step by step returns what the function returns when called
\* on a list item's children
ConvertStepwiseAgrees ==
    LET r == convert_blocks_to_latex(blocks, mode)
    IN  /\ pc = "converted" => r = Returned(ret)
        /\ pc = "convert_raised" => r = Raised(raised)

----------------------------------------------------------------------------
(* Claims on convert_blocks_to_latex *)

IsListBlock(b) == "type" \in DOMAIN b /\ b.type \in {"bulleted_list_item", "numbered_list_item"}

IsParagraphLike(b) == "type" \in DOMAIN b /\ b.type \in {"paragraph", "quote", "equation", "code"}

\* blocks a..b of bs are a maximal run: list blocks of one kind, with no
\* block of that kind just before or just after
MaximalRun(bs, a, b) ==
    /\ \A k \in a..b : IsListBlock(bs[k]) /\ bs[k].type = bs[a].type
    /\ a = 1 \/ ~IsListBlock(bs[a - 1]) \/ bs[a - 1].type # bs[a].type
    /\ b = Len(bs) \/ ~IsListBlock(bs[b + 1]) \/ bs[b + 1].type # bs[a].type

\* the maximal runs among the first n blocks of bs
MaximalRuns(bs, n) == {r \in (1..n) \X (1..n) : r[1] <= r[2] /\ MaximalRun(bs, r[1], r[2])}

\* the name of the environment of a run of the given kind
EnvironmentOf(kind) ==
    IF kind = "numbered_list_item"
    THEN <<"e", "n", "u", "m", "e", "r", "a", "t", "e">>
    ELSE <<"i", "t", "e", "m", "i", "z", "e">>

\* the units of one environment: its opening, one item for each block of the
\* run a..b in input order, its closing
EnvironmentUnits(bs, a, b) ==
    <<<<"\\", "b", "e", "g", "i", "n", "{">> \o EnvironmentOf(bs[a].type) \o <<"}">>>>
    \o [k \in 1..(b - a + 1) |->
          _render_list_block_item(bs[a + k - 1], bs[a].type, "paragraphs").val]
    \o <<<<"\\", "e", "n", "d", "{">> \o EnvironmentOf(bs[a].type) \o <<"}">>>>

RECURSIVE ExpectedListUnits(_, _)
\* the environments of the maximal runs of bs from block a on, in input order
ExpectedListUnits(bs, a) ==
    IF a > Len(bs) THEN <<>>
    ELSE IF ~IsListBlock(bs[a]) THEN ExpectedListUnits(bs, a + 1)
    ELSE LET b == CHOOSE b \in a..Len(bs) : MaximalRun(bs, a, b)
         IN  EnvironmentUnits(bs, a, b) \o ExpectedListUnits(bs, b + 1)

\* a unit of out that opens or closes a list environment, or is a list item
IsListUnit(u) ==
    \/ str_startswith(u, <<"\\", "i", "t", "e", "m", " ">>)
    \/ \E env \in {EnvironmentOf("bulleted_list_item"), EnvironmentOf("numbered_list_item")} :
          \/ u = <<"\\", "b", "e", "g", "i", "n", "{">> \o env \o <<"}">>
          \/ u = <<"\\", "e", "n", "d", "{">> \o env \o <<"}">>

\* the units of out that open an environment
Openings(o) ==
    SelectSeq(o, LAMBDA u : str_startswith(u, <<"\\", "b", "e", "g", "i", "n", "{">>)
                            /\ IsListUnit(u))

\* C6: when convert_blocks_to_latex returns in full-paragraphs mode, the list
\* units of its output are, in input order, one environment for each maximal
\* run of consecutive blocks of the identical list kind: itemize for a bulleted
\* run and enumerate for a numbered run, holding exactly one item for each
\* block of the run in input order; so there are as many environments as
\* maximal runs, and adjacent runs of different kinds give separate ones.
C6_OneEnvironmentPerRun ==
    (pc = "converted" /\ mode = "paragraphs") =>
        /\ SelectSeq(out, IsListUnit) = ExpectedListUnits(blocks, 1)
        /\ Len(Openings(out)) = Cardinality(MaximalRuns(blocks, Len(blocks)))

\* three bulleted blocks followed by one numbered block have given one
\* itemize environment of 3 items followed by one enumerate environment of 1
C6_Witness ==
    /\ pc = "converted"
    /\ mode = "paragraphs"
    /\ blocks = WithIds(<<BulletA, BulletA, BulletA, NumberedB>>)
    /\ Len(out) = 8
    /\ ret = <<"\\", "b", "e", "g", "i", "n", "{", "i", "t", "e", "m", "i", "z", "e", "}", "\n", "\\", "i", "t", "e", "m", " ", "a", "\n", "\\", "i", "t", "e", "m", " ", "a", "\n", "\\", "i", "t", "e", "m", " ", "a", "\n", "\\", "e", "n", "d", "{", "i", "t", "e", "m", "i", "z", "e", "}", "\n", "\\", "b", "e", "g", "i", "n", "{", "e", "n", "u", "m", "e", "r", "a", "t", "e", "}", "\n", "\\", "i", "t", "e", "m", " ", "b", "\n", "\\", "e", "n", "d", "{", "e", "n", "u", "m", "e", "r", "a", "t", "e", "}">>

\* the number of units that the list blocks among the first n blocks of bs
\* give in mode m: one for each item and, in full-paragraphs mode, two for
\* each environment
ListUnitCount(bs, n, m) ==
    Cardinality({k \in 1..n : IsListBlock(bs[k])})
    + (IF m = "paragraphs" THEN 2 * Cardinality(MaximalRuns(bs, n)) ELSE 0)

\* the rendered text of a paragraph-like block is not empty after trimming
HasContent(b) == IsParagraphLike(b) /\ str_strip(paragraph_like_text(b)) # <<>>

\* the unit of a paragraph-like block in mode m
ParagraphUnit(b, m) ==
    IF m = "items" THEN <<"\\", "i", "t", "e", "m", " ">> \o paragraph_like_text(b)
    ELSE paragraph_like_text(b)

\* the blocks of bs that have content, in input order
WithContent(bs) == SelectSeq(bs, HasContent)

C8_NoErrorPath == pc # "convert_raised"

----------------------------------------------------------------------------
(* Date overrides *)

MONTHS ==
    <<<<"J", "a", "n">>, <<"F", "e", "b">>, <<"M", "a", "r">>, <<"A", "p", "r">>,
      <<"M", "a", "y">>, <<"J", "u", "n">>, <<"J", "u", "l">>, <<"A", "u", "g">>,
      <<"S", "e", "p">>, <<"O", "c", "t">>, <<"N", "o", "v">>, <<"D", "e", "c">>>>

\* the characters U+2014 and U+2013, each one character of a str
EmDash == "em dash"
EnDash == "en dash"

\* " -- "
RANGE_SEPARATOR == <<" ", "-", "-", " ">>

PRESENT == <<"P", "r", "e", "s", "e", "n", "t">>

Digits == <<"0", "1", "2", "3", "4", "5", "6", "7", "8", "9">>

is_digit(c) == \E d \in 1..10 : Digits[d] = c

\* s without the sign that int() accepts in front
unsigned(s) == IF s # <<>> /\ s[1] \in {"+", "-"} THEN SubSeq(s, 2, Len(s)) ELSE s

\* int(s) raises no ValueError: an optional sign, then digits, with single
\* underscores between digits (the strs given to it here hold no blank and
\* only ASCII characters)
is_int(s) ==
    /\ unsigned(s) # <<>>
    /\ \A n \in 1..Len(unsigned(s)) :
          \/ is_digit(unsigned(s)[n])
          \/ /\ unsigned(s)[n] = "_"
             /\ 1 < n /\ n < Len(unsigned(s))
             /\ is_digit(unsigned(s)[n - 1]) /\ is_digit(unsigned(s)[n + 1])

RECURSIVE digits_value(_)
\* the number written by a str of digits and underscores
digits_value(s) ==
    IF s = <<>> THEN 0
    ELSE IF s[Len(s)] = "_" THEN digits_value(SubSeq(s, 1, Len(s) - 1))
    ELSE 10 * digits_value(SubSeq(s, 1, Len(s) - 1))
         + (CHOOSE d \in 0..9 : Digits[d + 1] = s[Len(s)])

\* int(s), for a str that int() accepts
int(s) == IF s[1] = "-" THEN 0 - digits_value(unsigned(s)) ELSE digits_value(unsigned(s))

RECURSIVE split_words(_)
\* the words of a str that starts with no whitespace
split_words(t) ==
    IF t = <<>> THEN <<>>
    ELSE IF \A n \in 1..Len(t) : t[n] \notin Whitespace THEN <<t>>
    ELSE <<SubSeq(t, 1, (CHOOSE n \in 1..Len(t) :
                            t[n] \in Whitespace /\ \A m \in 1..(n - 1) : t[m] \notin Whitespace) - 1)>>
         \o split_words(str_lstrip(SubSeq(t, CHOOSE n \in 1..Len(t) :
                            t[n] \in Whitespace /\ \A m \in 1..(n - 1) : t[m] \notin Whitespace, Len(t))))

\* s.split()
str_split_words(s) == split_words(str_lstrip(s))

\* MONTHS.index(month_name) + 1 if month_name in MONTHS else 0
month_number(month_name) ==
    IF \E n \in 1..12 : MONTHS[n] = month_name
    THEN CHOOSE n \in 1..12 : MONTHS[n] = month_name
    ELSE 0

\* lines 520-527 with an unknown month name taken for unparseable
parts_for_sorting_SinkUnknownMonth(parts) ==
    IF Len(parts) = 2 /\ is_int(parts[2]) /\ month_number(parts[1]) # 0
    THEN <<int(parts[2]), month_number(parts[1])>>
    ELSE <<0, 0>>

\* lines 520-527, for the words of date_str
parts_for_sorting(parts) ==
    IF Len(parts) = 2 /\ is_int(parts[2])
    THEN <<int(parts[2]), month_number(parts[1])>>
    \* another number of words, or the ValueError of int(year_str)
    ELSE <<0, 0>>

\* return (9999, 12)  # Put "Present" at the end
present_key == <<9999, 12>>

parse_date_for_sorting(d) ==
    IF d = <<>> \/ str_lower(d) = str_lower(PRESENT) THEN present_key
    ELSE parts_for_sorting(str_split_words(d))

\* a < b for two (year, month) tuples
tuple_less(a, b) == a[1] < b[1] \/ (a[1] = b[1] /\ a[2] < b[2])

\* min(dates, key=lambda x: parse_date_for_sorting(x)): the first of the
\* dates of the least key
earliest(dates) ==
    dates[CHOOSE n \in 1..Len(dates) :
            /\ \A m \in 1..Len(dates) :
                  ~tuple_less(parse_date_for_sorting(dates[m]), parse_date_for_sorting(dates[n]))
            /\ \A m \in 1..(n - 1) :
                  tuple_less(parse_date_for_sorting(dates[n]), parse_date_for_sorting(dates[m]))]

\* max(dates, key=lambda x: parse_date_for_sorting(x)): the first of the
\* dates of the greatest key
latest(dates) ==
    dates[CHOOSE n \in 1..Len(dates) :
            /\ \A m \in 1..Len(dates) :
                  ~tuple_less(parse_date_for_sorting(dates[n]), parse_date_for_sorting(dates[m]))
            /\ \A m \in 1..(n - 1) :
                  tuple_less(parse_date_for_sorting(dates[m]), parse_date_for_sorting(dates[n]))]

\* the end dates with "Present" kept among them
end_dates_no_present_KeepsPresent(end_dates) == end_dates

\* [d for d in end_dates if d.lower() != "present"]
end_dates_no_present(end_dates) ==
    SelectSeq(end_dates, LAMBDA d : str_lower(d) # str_lower(PRESENT))

\* override_text.replace("—", "--").replace("–", "--")
normalized_text(t) ==
    str_replace(str_replace(t, <<EmDash>>, <<"-", "-">>), <<EnDash>>, <<"-", "-">>)

\* [r.strip() for r in normalized_text.split(",")]
ranges_of(nt) ==
    [n \in 1..Len(str_split(nt, <<",">>)) |-> str_strip(str_split(nt, <<",">>)[n])]

\* the (start_part.strip(), end_part.strip()) of a str that holds " -- "
range_parts(range_str) ==
    <<str_strip(str_split1(range_str, RANGE_SEPARATOR)[1]),
      str_strip(str_split1(range_str, RANGE_SEPARATOR)[2])>>

\* the ranges that hold " -- ", each split in two
split_ranges(ranges) ==
    [n \in 1..Len(SelectSeq(ranges, LAMBDA r : str_contains(r, RANGE_SEPARATOR))) |->
        range_parts(SelectSeq(ranges, LAMBDA r : str_contains(r, RANGE_SEPARATOR))[n])]

\* latest_end of lines 488-492, for the end dates that are not "Present"
latest_end(no_present) == IF no_present # <<>> THEN latest(no_present) ELSE PRESENT

\* lines 497-503: a single range, or a start date only
parse_single(nt) ==
    IF str_contains(nt, RANGE_SEPARATOR) THEN range_parts(nt)
    ELSE <<str_strip(nt), None>>

\* lines 474-495, for the pairs of the ranges that hold " -- "
parse_ranges(nt, pairs) ==
    IF pairs # <<>>
    THEN <<earliest([n \in 1..Len(pairs) |-> pairs[n][1]]),
           latest_end(end_dates_no_present([n \in 1..Len(pairs) |-> pairs[n][2]]))>>
    ELSE parse_single(nt)

\* the function, for the normalized text
parse_normalized(nt) ==
    IF str_contains(nt, <<",">>) THEN parse_ranges(nt, split_ranges(ranges_of(nt)))
    ELSE parse_single(nt)

parse_date_override(t) == parse_normalized(normalized_text(t))

(* Inputs *)

MaxRanges == 2

StartDates == {<<"J", "a", "n", " ", "2", "0", "2", "0">>, <<"J", "a", "n", " ", "2", "0", "2", "3">>, <<"M", "a", "r", " ", "2", "0", "1", "9">>}

EndDates == {<<"D", "e", "c", " ", "2", "0", "2", "1">>, <<"D", "e", "c", " ", "2", "0", "2", "4">>, PRESENT, <<"p", "r", "e", "s", "e", "n", "t">>}

\* one range of an override: start -- end, or written with another dash,
\* without a separator, or with dates that are no month and year
OverrideRanges ==
    {s \o RANGE_SEPARATOR \o e : s \in StartDates, e \in EndDates}
    \cup { <<"J", "a", "n", " ", "2", "0", "2", "0", " ">> \o <<EmDash>> \o <<" ", "F", "e", "b", " ", "2", "0", "2", "0">>,
           <<"M", "a", "r", " ", "2", "0", "1", "9", " ">> \o <<EnDash>> \o <<" ", "P", "R", "E", "S", "E", "N", "T">>,
           <<"J", "a", "n", " ", "2", "0", "2", "0">>,
           <<"2", "0", "2", "0", " ", "-", "-", " ", "S", "o", "o", "n">>,
           <<"S", "u", "m", "m", "e", "r", " ", "2", "0", "2", "0", " ", "-", "-", " ", "D", "e", "c", " ", "2", "0", "x", "1">> }

\* the overrides of the Date Override field: ranges separated by commas
DateInputs ==
    {str_join(<<",", " ">>, rs) : rs \in SeqsUpTo(OverrideRanges, MaxRanges) \ {<<>>}}
    \cup { <<"J", "a", "n", " ", "2", "0", "2", "0", " ", "-", "-", " ", "D", "e", "c", " ", "2", "0", "2", "1", ",">>, <<"J", "a", "n", " ", "2", "0", "2", "0", ",", "J", "a", "n", " ", "2", "0", "2", "3">> }

(* parse_date_override *)

InitDate ==
    /\ pc = "parse_date_override"
    /\ override_text \in DateInputs
    /\ IdleEscape /\ IdleRt /\ IdleBlocks /\ IdleFilter /\ IdleConvert /\ IdleSort /\ IdleMain /\ NoResult

CallParseDateOverride ==
    /\ pc = "parse_date_override"
    /\ ret' = parse_date_override(override_text)
    /\ pc' = "parsed"
    /\ UNCHANGED <<sortVars, mainVars>>
    /\ UNCHANGED <<text, rich_text, blocks, pos, in_resume, found_for_resume,
                   filtered, mode, i, out, override_text, raised>>

NextDate == CallParseDateOverride

SpecDate == InitDate /\ [][NextDate]_vars

----------------------------------------------------------------------------
(* Claims on parse_date_override *)

\* the sub-ranges of an override: the trimmed pieces between its commas, the
\* two dashes written as "--"
SubRanges(t) ==
    LET pieces == str_split(normalized_text(t), <<",">>)
    IN  {str_strip(pieces[n]) : n \in 1..Len(pieces)}

\* the sub-ranges that contain the separator
Separated(t) == {r \in SubRanges(t) : str_contains(r, <<" ", "-", "-", " ">>)}

\* the trimmed text before and after the first separator of a sub-range
ParsedStart(r) == str_strip(SubSeq(r, 1, str_find(r, <<" ", "-", "-", " ">>) - 1))
ParsedEnd(r) == str_strip(SubSeq(r, str_find(r, <<" ", "-", "-", " ">>) + 4, Len(r)))

IsPresent(d) == str_lower(d) = <<"p", "r", "e", "s", "e", "n", "t">>

\* the parsed ends that are not the token "present"
ConcreteEnds(t) == {ParsedEnd(r) : r \in Separated(t)} \ {d \in {ParsedEnd(r) : r \in Separated(t)} : IsPresent(d)}

\* d is before e by (year, month)
Before(d, e) ==
    LET a == parse_date_for_sorting(d)
        b == parse_date_for_sorting(e)
    IN  a[1] < b[1] \/ (a[1] = b[1] /\ a[2] < b[2])

\* a comma-separated override with at least one sub-range that contains the
\* separator has been parsed
MultiRangeParsed ==
    /\ pc = "parsed"
    /\ \E n \in 1..Len(override_text) : override_text[n] = ","
    /\ Separated(override_text) # {}

\* C9: whenever a range of a multi-range override ends in the token
\* "present", the resolved end is "Present".
C9_PresentWhenAnyOpenEnded ==
    (MultiRangeParsed /\ \E r \in Separated(override_text) : IsPresent(ParsedEnd(r)))
        => ret[2] = <<"P", "r", "e", "s", "e", "n", "t">>

\* C10: for a comma-separated override with at least one sub-range that
\* contains the separator, the start returned is a parsed start that no
\* parsed start precedes by (year, month); the end returned is a concrete
\* parsed end that precedes no concrete parsed end when there is a concrete
\* end, and "Present" only when every parsed end is the token "present";
\* sub-ranges without the separator play no part.
C10_EarliestStartLatestConcreteEnd ==
    MultiRangeParsed =>
        /\ \E r \in Separated(override_text) : ret[1] = ParsedStart(r)
        /\ \A r \in Separated(override_text) : ~Before(ParsedStart(r), ret[1])
        /\ ConcreteEnds(override_text) = {} => ret[2] = <<"P", "r", "e", "s", "e", "n", "t">>
        /\ ConcreteEnds(override_text) # {} =>
              /\ ret[2] \in ConcreteEnds(override_text)
              /\ \A e \in ConcreteEnds(override_text) : ~Before(ret[2], e)

\* "Jan 2020 -- Dec 2021, Jan 2023 -- Dec 2024" gave start "Jan 2020" and end
\* "Dec 2024"
C10_Witness ==
    /\ pc = "parsed"
    /\ override_text = <<"J", "a", "n", " ", "2", "0", "2", "0", " ", "-", "-", " ", "D", "e", "c", " ", "2", "0", "2", "1", ",", " ", "J", "a", "n", " ", "2", "0", "2", "3", " ", "-", "-", " ", "D", "e", "c", " ", "2", "0", "2", "4">>
    /\ ret = <<<<"J", "a", "n", " ", "2", "0", "2", "0">>, <<"D", "e", "c", " ", "2", "0", "2", "4">>>>

----------------------------------------------------------------------------
(* parse_date_for_sorting *)

MaxWords == 2

DateWords ==
    {<<"J", "a", "n">>, <<"D", "e", "c">>, <<"j", "a", "n">>, <<"F", "o", "o">>, <<"P", "r", "e", "s", "e", "n", "t">>, <<"p", "r", "e", "s", "e", "n", "t">>, <<"2", "0", "2", "0">>, <<"-", "5">>, <<"2", "0", "x", "0">>, <<"1", "_", "9">>}

\* the date strings given to parse_date_for_sorting: a few words with one
\* blank between them, and strings with other blanks
DateStrs ==
    {str_join(<<" ">>, ws) : ws \in SeqsUpTo(DateWords, MaxWords)}
    \cup {<<"P", "R", "E", "S", "E", "N", "T">>, <<" ", "p", "r", "e", "s", "e", "n", "t">>, <<"J", "u", "n", " ", " ", "2", "0", "1", "9">>, <<" ", "M", "a", "y", "\t", "2", "0", "2", "1", " ">>, <<"+", "7">>, <<"M", "a", "r", " ", "+", "2", "0", "2", "1">>}

InitSortKey ==
    /\ pc = "parse_date_for_sorting"
    /\ date_str \in DateStrs
    /\ entries = <<>>
    /\ IdleEscape /\ IdleRt /\ IdleBlocks /\ IdleFilter /\ IdleConvert /\ IdleDate
    /\ IdleMain /\ NoResult

CallParseDateForSorting ==
    /\ pc = "parse_date_for_sorting"
    /\ ret' = parse_date_for_sorting(date_str)
    /\ pc' = "sort_key"
    /\ UNCHANGED <<sortVars, mainVars>>
    /\ UNCHANGED <<text, rich_text, blocks, pos, in_resume, found_for_resume,
                   filtered, mode, i, out, override_text, raised>>

NextSortKey == CallParseDateForSorting

SpecSortKey == InitSortKey /\ [][NextSortKey]_vars

----------------------------------------------------------------------------
(* Claims on parse_date_for_sorting *)

MonthAbbrevs ==
    <<<<"J", "a", "n">>, <<"F", "e", "b">>, <<"M", "a", "r">>, <<"A", "p", "r">>, <<"M", "a", "y">>, <<"J", "u", "n">>, <<"J", "u", "l">>, <<"A", "u", "g">>, <<"S", "e", "p">>, <<"O", "c", "t">>, <<"N", "o", "v">>, <<"D", "e", "c">>>>

\* the place of a word in the table of month abbreviations, 0 when it is not
\* there
MonthIndex(w) ==
    LET at == {n \in 1..12 : MonthAbbrevs[n] = w}
    IN  IF at = {} THEN 0 ELSE CHOOSE n \in at : TRUE

\* d is two words, the second a year
IsWordAndYear(d) == Len(str_split_words(d)) = 2 /\ is_int(str_split_words(d)[2])

\* d is of the form "MonthAbbrev Year"
IsMonthAndYear(d) == IsWordAndYear(d) /\ MonthIndex(str_split_words(d)[1]) # 0

\* d is the literal "present", in any letter case
IsPresentLiteral(d) == str_lower(d) = <<"p", "r", "e", "s", "e", "n", "t">>

\* C11 as stated: "MonthAbbrev Year" gives (year, month index), "present" in
\* any case gives (9999, 12), and every other string gives (0, 0); nothing is
\* raised.
C11_SingleSink ==
    /\ raised = NoException
    /\ pc = "sort_key" =>
          ret = IF IsPresentLiteral(date_str) THEN <<9999, 12>>
                ELSE IF IsMonthAndYear(date_str)
                THEN <<int(str_split_words(date_str)[2]), MonthIndex(str_split_words(date_str)[1])>>
                ELSE <<0, 0>>

\* C11 amended: parse_date_for_sorting never raises; "present" in any case
\* and the empty string give (9999, 12); two words of which the second is an
\* integer give (year, month index), the month index being 0 when the first
\* word is not in the table; every other string gives (0, 0).
C11_SinkExceptYearWithUnknownMonth ==
    /\ raised = NoException
    /\ pc = "sort_key" =>
          /\ (IsPresentLiteral(date_str) \/ date_str = <<>>) => ret = <<9999, 12>>
          /\ (~IsPresentLiteral(date_str) /\ IsWordAndYear(date_str)) =>
                /\ ret[1] = int(str_split_words(date_str)[2])
                /\ ret[2] = MonthIndex(str_split_words(date_str)[1])
          /\ (~IsPresentLiteral(date_str) /\ date_str # <<>> /\ ~IsWordAndYear(date_str))
                => ret = <<0, 0>>

\* a year after a word that is no month abbreviation kept its year
C11_Witness ==
    /\ pc = "sort_key"
    /\ date_str = <<"F", "o", "o", " ", "2", "0", "2", "0">>
    /\ ret = <<2020, 0>>

----------------------------------------------------------------------------
(* get_latest_end_date_from_override *)

\* the end dates of line 588 with "Present" kept among them
override_ends_no_present_KeepsPresent(end_dates) == end_dates

\* line 588: [d for d in end_dates if d.lower() != "present"]
override_ends_no_present(end_dates) ==
    SelectSeq(end_dates, LAMBDA d : str_lower(d) # str_lower(PRESENT))

\* lines 589-593, for the end dates that are not "Present"
latest_end_key(no_present) ==
    IF no_present # <<>> THEN parse_date_for_sorting(latest(no_present))
    \* All ranges end with "Present"
    ELSE <<9999, 12>>

\* lines 595-601: a single range, or a start date only
latest_end_single(nt) ==
    IF str_contains(nt, RANGE_SEPARATOR) THEN parse_date_for_sorting(range_parts(nt)[2])
    ELSE parse_date_for_sorting(str_strip(nt))

\* lines 578-593, for the pairs of the ranges that hold " -- "
latest_end_ranges(nt, pairs) ==
    IF pairs # <<>>
    THEN latest_end_key(override_ends_no_present([n \in 1..Len(pairs) |-> pairs[n][2]]))
    ELSE latest_end_single(nt)

\* the function, for the normalized text
latest_end_normalized(nt) ==
    IF str_contains(nt, <<",">>) THEN latest_end_ranges(nt, split_ranges(ranges_of(nt)))
    ELSE latest_end_single(nt)

get_latest_end_date_from_override(t) ==
    IF t = <<>> THEN <<0, 0>> ELSE latest_end_normalized(normalized_text(t))

InitLatestEnd ==
    /\ pc = "get_latest_end_date_from_override"
    /\ override_text \in DateInputs
    /\ IdleEscape /\ IdleRt /\ IdleBlocks /\ IdleFilter /\ IdleConvert
    /\ IdleSort /\ IdleMain /\ NoResult

CallGetLatestEndDate ==
    /\ pc = "get_latest_end_date_from_override"
    /\ ret' = get_latest_end_date_from_override(override_text)
    /\ pc' = "latest_end"
    /\ UNCHANGED <<sortVars, mainVars>>
    /\ UNCHANGED <<text, rich_text, blocks, pos, in_resume, found_for_resume,
                   filtered, mode, i, out, override_text, raised>>

NextLatestEnd == CallGetLatestEndDate

SpecLatestEnd == InitLatestEnd /\ [][NextLatestEnd]_vars

----------------------------------------------------------------------------
(* sort_entries_by_date *)

\* lines 551-555, for date_str = entry.get("end_date") or entry.get("start_date")
sort_date_of(d) == IF ~Truthy(d) THEN <<0, 0>> ELSE parse_date_for_sorting(d)

\* get_sort_date of lines 545-555
get_sort_date(entry) ==
    IF Truthy(dict_get(entry, "date_display", None))
    THEN get_latest_end_date_from_override(entry.date_display)
    ELSE sort_date_of(IF Truthy(dict_get(entry, "end_date", None))
                      THEN entry.end_date
                      ELSE dict_get(entry, "start_date", None))

\* the place of x in a list sorted newest first, when x goes before the
\* entries of its own key
place_BeforeEquals(done, x) ==
    Cardinality({n \in 1..Len(done) : tuple_less(get_sort_date(x), get_sort_date(done[n]))})

\* the place of x in a list sorted newest first: after the entries whose key
\* is not less than its own
place(done, x) ==
    Cardinality({n \in 1..Len(done) : ~tuple_less(get_sort_date(done[n]), get_sort_date(x))})

\* done with x put after its first k entries
inserted(done, x, k) == SubSeq(done, 1, k) \o <<x>> \o SubSeq(done, k + 1, Len(done))

RECURSIVE sorted_reverse(_)
\* sorted(xs, key=get_sort_date, reverse=True): the sort is stable, so each
\* entry comes after the earlier entries of the same key
sorted_reverse(xs) ==
    IF xs = <<>> THEN <<>>
    ELSE inserted(sorted_reverse(SubSeq(xs, 1, Len(xs) - 1)), xs[Len(xs)],
                  place(sorted_reverse(SubSeq(xs, 1, Len(xs) - 1)), xs[Len(xs)]))

sort_entries_by_date(es) == sorted_reverse(es)

(* Inputs *)

MaxEntries == 3

\* an entry of cv_data, with the fields the sorter reads
Entry(start_date, end_date, date_display) ==
    [start_date |-> start_date, end_date |-> end_date, date_display |-> date_display]

SortEntries ==
    { Entry(<<"J", "a", "n", " ", "2", "0", "2", "0">>, <<"D", "e", "c", " ", "2", "0", "2", "1">>, None),
      Entry(<<"J", "a", "n", " ", "2", "0", "2", "3">>, <<"P", "r", "e", "s", "e", "n", "t">>, None),
      Entry(None, <<"J", "u", "n", " ", "2", "0", "1", "9">>, None),
      Entry(None, None, None),
      Entry(<<"D", "e", "c", " ", "2", "0", "2", "1">>, None, None),
      Entry(<<"J", "a", "n", " ", "2", "0", "2", "0">>, <<>>, None),
      Entry(<<"J", "a", "n", " ", "2", "0", "2", "0">>, <<"D", "e", "c", " ", "2", "0", "2", "1">>, <<"J", "a", "n", " ", "2", "0", "2", "0", " ", "-", "-", " ", "D", "e", "c", " ", "2", "0", "2", "1", ",", " ", "J", "a", "n", " ", "2", "0", "2", "3", " ", "-", "-", " ", "P", "r", "e", "s", "e", "n", "t">>) }

\* the entries of a section, each with its own name
WithNames(es) == [n \in 1..Len(es) |-> es[n] @@ Field("name", <<Digits[n + 1]>>)]

SortInputs == {WithNames(es) : es \in SeqsUpTo(SortEntries, MaxEntries)}

InitSort ==
    /\ pc = "sort_entries_by_date"
    /\ entries \in SortInputs
    /\ date_str = None
    /\ IdleEscape /\ IdleRt /\ IdleBlocks /\ IdleFilter /\ IdleConvert /\ IdleDate
    /\ IdleMain /\ NoResult

CallSortEntriesByDate ==
    /\ pc = "sort_entries_by_date"
    /\ ret' = sort_entries_by_date(entries)
    /\ pc' = "sorted"
    /\ UNCHANGED <<sortVars, mainVars>>
    /\ UNCHANGED <<text, rich_text, blocks, pos, in_resume, found_for_resume,
                   filtered, mode, i, out, override_text, raised>>

NextSort == CallSortEntriesByDate

SpecSort == InitSort /\ [][NextSort]_vars

----------------------------------------------------------------------------
(* Claims on the sorter *)

\* the effective date key of an entry: for an entry without override that of
\* its end date, else of its start date, else (0, 0); for an entry with an
\* override the latest end date of the override
EffectiveKey(e) ==
    IF e.date_display # None /\ e.date_display # <<>>
    THEN get_latest_end_date_from_override(e.date_display)
    ELSE IF e.end_date # None /\ e.end_date # <<>> THEN parse_date_for_sorting(e.end_date)
    ELSE IF e.start_date # None /\ e.start_date # <<>> THEN parse_date_for_sorting(e.start_date)
    ELSE <<0, 0>>

\* key a is before key b
KeyBefore(a, b) == a[1] < b[1] \/ (a[1] = b[1] /\ a[2] < b[2])

\* the place in es of the entry named as e
PlaceIn(es, e) == CHOOSE n \in 1..Len(es) : es[n].name = e.name

\* C12: sort_entries_by_date returns a permutation of its input in which the
\* effective date keys never increase and in which two entries of equal keys
\* keep their original relative order.
C12_StableDescendingSort ==
    pc = "sorted" =>
        /\ Len(ret) = Len(entries)
        /\ \A n \in 1..Len(entries) : \E m \in 1..Len(ret) : ret[m] = entries[n]
        /\ \A a, b \in 1..Len(ret) :
              a < b =>
                 /\ ~KeyBefore(EffectiveKey(ret[a]), EffectiveKey(ret[b]))
                 /\ EffectiveKey(ret[a]) = EffectiveKey(ret[b])
                       => PlaceIn(entries, ret[a]) < PlaceIn(entries, ret[b])

\* entries that end "Dec 2021", "Present", "Jun 2019" came out as "Present",
\* "Dec 2021", "Jun 2019"
C12_Witness ==
    /\ pc = "sorted"
    /\ Len(entries) = 3
    /\ [n \in 1..3 |-> entries[n].end_date] = <<<<"D", "e", "c", " ", "2", "0", "2", "1">>, <<"P", "r", "e", "s", "e", "n", "t">>, <<"J", "u", "n", " ", "2", "0", "1", "9">>>>
    /\ \A n \in 1..3 : entries[n].date_display = None
    /\ [n \in 1..3 |-> ret[n].end_date] = <<<<"P", "r", "e", "s", "e", "n", "t">>, <<"D", "e", "c", " ", "2", "0", "2", "1">>, <<"J", "u", "n", " ", "2", "0", "1", "9">>>>

\* the key of what parse_date_override resolves: that of the end, or of the
\* start when the end is absent
ResolvedKey(r) ==
    IF r[2] # None /\ r[2] # <<>> THEN parse_date_for_sorting(r[2])
    ELSE IF r[1] # None /\ r[1] # <<>> THEN parse_date_for_sorting(r[1])
    ELSE <<0, 0>>

\* C13: for a trimmed override that is not blank, the key that
\* get_latest_end_date_from_override derives is the key of the end that
\* parse_date_override resolves, or of the start when that end is absent; so
\* an entry with the override has the sort key of the same entry without it.
C13_SorterAgreesWithResolver ==
    pc = "latest_end" =>
        /\ ret = ResolvedKey(parse_date_override(override_text))
        /\ get_sort_date(Entry(parse_date_override(override_text)[1],
                               parse_date_override(override_text)[2], override_text))
             = get_sort_date(Entry(parse_date_override(override_text)[1],
                                   parse_date_override(override_text)[2], None))

\* the override of two ranges, one of them open-ended, gave the key of the
\* concrete end that the resolver returns
C13_Witness ==
    /\ pc = "latest_end"
    /\ override_text = <<"J", "a", "n", " ", "2", "0", "2", "0", " ", "-", "-", " ", "D", "e", "c", " ", "2", "0", "2", "1", ",", " ", "J", "a", "n", " ", "2", "0", "2", "3", " ", "-", "-", " ", "P", "r", "e", "s", "e", "n", "t">>
    /\ parse_date_override(override_text)[2] = <<"D", "e", "c", " ", "2", "0", "2", "1">>
    /\ ret = <<2021, 12>>

----------------------------------------------------------------------------
(* Claims on the sentinel headings of filter_for_resume_region *)

\* a heading of any level
IsHeading(b) == "type" \in DOMAIN b /\ b.type \in {"heading_1", "heading_2", "heading_3"}

\* block n of bs is in the included region: no "Not For Resume" heading is at
\* or before it
InIncludedRegion(bs, n) == FirstNotForResume(bs) = 0 \/ n < FirstNotForResume(bs)

\* C15: a level-1 heading is a sentinel exactly when its whole text, all
\* spans together, trimmed and in any letter case, is "for resume" or "not
\* for resume": no such heading is ever emitted, and every other heading, of
\* level 1 or of another level, is emitted when it is inside the included
\* region.
C15_SentinelByWholeText ==
    pc = "filtered" =>
        /\ \A m \in 1..Len(ret) : ~SentinelH1(ret[m])
        /\ \A n \in 1..Len(blocks) :
              (IsHeading(blocks[n]) /\ ~SentinelH1(blocks[n]) /\ InIncludedRegion(blocks, n))
                  => \E m \in 1..Len(ret) : ret[m] = blocks[n]

\* C15 on the pages whose level-1 headings have at most one span: there the
\* statement of C15 holds.
C15_OnSingleSpanHeadings ==
    SingleSpanHeadings(blocks) => C15_SentinelByWholeText

----------------------------------------------------------------------------
(* main *)

\* "--refresh" in argv or "-r" in argv
force_refresh(flags) == "--refresh" \in flags \/ "-r" \in flags

\* "--sort-only" in argv or "-s" in argv
sort_only(flags) == "--sort-only" \in flags \/ "-s" \in flags

\* the test of line 757 with the token alone looked at
config_missing_TokenOnly(env) == "NOTION_TOKEN" \notin env

\* not notion_token or not database_id, env being the variables that are set
\* to a value that is not empty
config_missing(env) == "NOTION_TOKEN" \notin env \/ "DATA_SOURCE_ID" \notin env

\* the JSON text of a field of an entry: null for None, a string for a str
json_value(v) == IF v = None THEN [json |-> "null"] ELSE [json |-> "string", chars |-> v]

\* the field read back from its JSON text
python_value(j) == IF j.json = "null" THEN None ELSE j.chars

\* the JSON object of an entry: a member for each of its fields
json_entry(e) == {[key |-> k, value |-> json_value(e[k])] : k \in DOMAIN e}

\* the JSON array of the entries of a section
json_entries(es) == [n \in 1..Len(es) |-> json_entry(es[n])]

\* the entry read back from its JSON object
python_entry(o) ==
    [k \in {m.key : m \in o} |-> python_value((CHOOSE m \in o : m.key = k).value)]

\* the entries read back from their JSON array
python_entries(a) == [n \in 1..Len(a) |-> python_entry(a[n])]

\* json.dump(cv_data, f, indent=2, ensure_ascii=False): the JSON object that
\* the file holds, a member for each section
json_dump(d) == {[key |-> k, value |-> json_entries(d[k])] : k \in DOMAIN d}

\* json.load(f)
json_load(o) ==
    [k \in {m.key : m \in o} |-> python_entries((CHOOSE m \in o : m.key = k).value)]

\* sort_cv_data: every section sorted by sort_entries_by_date
sort_cv_data(d) == [section_name \in DOMAIN d |-> sort_entries_by_date(d[section_name])]

\* what a run that fetched would write were the cache written after the sort
saved_AfterSort(d) == json_dump(sort_cv_data(d))

\* lines 793-796: what a run that fetched writes to the cache file
saved(d) == json_dump(d)

\* cache_age < 3600
is_fresh(file) == file.age = "fresh"

(* Inputs *)

Flags == {"--refresh", "-r", "--sort-only", "-s"}

Required == {"NOTION_TOKEN", "DATA_SOURCE_ID"}

\* cv_data as fetch_notion_data may return it: sections of entries in the
\* order of the database, sorted or not
NotionData ==
    { Field("Education",
            WithNames(<<Entry(None, <<"J", "u", "n", " ", "2", "0", "1", "9">>, None), Entry(<<"J", "a", "n", " ", "2", "0", "2", "3">>, <<"P", "r", "e", "s", "e", "n", "t">>, None)>>)),
      Field("Education",
            WithNames(<<Entry(<<"J", "a", "n", " ", "2", "0", "2", "3">>, <<"P", "r", "e", "s", "e", "n", "t">>, None), Entry(None, <<"J", "u", "n", " ", "2", "0", "1", "9">>, None)>>)),
      Field("Education", WithNames(<<Entry(<<"J", "a", "n", " ", "2", "0", "2", "3">>, <<"P", "r", "e", "s", "e", "n", "t">>, None)>>))
        @@ Field("Projects",
                 WithNames(<<Entry(None, None, None), Entry(<<"J", "a", "n", " ", "2", "0", "2", "0">>, <<"D", "e", "c", " ", "2", "0", "2", "1">>, None),
                             Entry(<<"D", "e", "c", " ", "2", "0", "2", "1">>, None, None)>>)) }

InitMain ==
    /\ pc = "start"
    /\ argv = {}
    /\ environ = {}
    /\ cache_file = <<>>
    /\ cv_data = <<>>
    /\ out_file = <<>>
    /\ status = 0
    /\ IdleEscape /\ IdleRt /\ IdleBlocks /\ IdleFilter /\ IdleConvert /\ IdleDate
    /\ IdleSort /\ NoResult

others == <<text, rich_text, blocks, pos, in_resume, found_for_resume,
            filtered, mode, i, out, override_text, date_str, entries, raised, ret>>

\* a run of main starts: lines 745-755
MainStart ==
    /\ pc \in {"start", "returned"}
    /\ argv' \in SUBSET Flags
    /\ environ' \in SUBSET Required
    /\ cv_data' = <<>>
    /\ pc' = "check_config"
    /\ UNCHANGED <<cache_file, out_file, status, others>>

\* lines 757-762
MainCheckConfig ==
    /\ pc = "check_config"
    /\ IF config_missing(environ)
       THEN status' = 2 /\ pc' = "returned"
       ELSE /\ pc' = IF sort_only(argv) THEN "sort_only" ELSE "check_cache"
            /\ UNCHANGED status
    /\ UNCHANGED <<argv, environ, cache_file, cv_data, out_file, others>>

\* lines 762-769: sort-only mode
MainSortOnly ==
    /\ pc = "sort_only"
    /\ IF cache_file = <<>>
       THEN status' = 3 /\ pc' = "returned" /\ UNCHANGED cv_data
       ELSE /\ cv_data' = <<json_load(cache_file[1].data)>>
            /\ pc' = "sort"
            /\ UNCHANGED status
    /\ UNCHANGED <<argv, environ, cache_file, out_file, others>>

\* lines 770-786: normal mode, the cache is used when it is there, less than
\* one hour old and no refresh is asked for
MainCheckCache ==
    /\ pc = "check_cache"
    /\ cv_data' = IF ~force_refresh(argv) /\ cache_file # <<>> /\ is_fresh(cache_file[1])
                  THEN <<json_load(cache_file[1].data)>>
                  ELSE <<>>
    /\ pc' = "loaded_or_none"
    /\ UNCHANGED <<argv, environ, cache_file, out_file, status, others>>

\* if cv_data is None, lines 788-791: fetch_notion_data returns what Notion
\* holds at the time
MainFetch ==
    /\ pc = "loaded_or_none"
    /\ cv_data = <<>>
    /\ \E d \in NotionData : cv_data' = <<d>>
    /\ pc' = "save_cache"
    /\ UNCHANGED <<argv, environ, cache_file, out_file, status, others>>

\* lines 793-796
MainSaveCache ==
    /\ pc = "save_cache"
    /\ cache_file' = <<[data |-> saved(cv_data[1]), age |-> "fresh"]>>
    /\ pc' = "sort"
    /\ UNCHANGED <<argv, environ, cv_data, out_file, status, others>>

\* cv_data is not None: nothing is fetched
MainCacheHit ==
    /\ pc = "loaded_or_none"
    /\ cv_data # <<>>
    /\ pc' = "sort"
    /\ UNCHANGED <<argv, environ, cache_file, cv_data, out_file, status, others>>

\* lines 798-800
MainSort ==
    /\ pc = "sort"
    /\ cv_data' = <<sort_cv_data(cv_data[1])>>
    /\ pc' = "render"
    /\ UNCHANGED <<argv, environ, cache_file, out_file, status, others>>

\* lines 802-806
MainRender ==
    /\ pc = "render"
    /\ out_file' = cv_data
    /\ status' = 0
    /\ pc' = "returned"
    /\ UNCHANGED <<argv, environ, cache_file, cv_data, others>>

\* time passes: the cache file becomes older than one hour
CacheAges ==
    /\ cache_file # <<>>
    /\ is_fresh(cache_file[1])
    /\ cache_file' = <<[cache_file[1] EXCEPT !.age = "old"]>>
    /\ UNCHANGED <<pc, argv, environ, cv_data, out_file, status, others>>

NextMain ==
    \/ MainStart \/ MainCheckConfig \/ MainSortOnly \/ MainCheckCache \/ MainFetch
    \/ MainSaveCache \/ MainCacheHit \/ MainSort \/ MainRender \/ CacheAges

SpecMain == InitMain /\ [][NextMain]_vars

----------------------------------------------------------------------------
(* Claims on main *)

\* NOTION_TOKEN and DATA_SOURCE_ID are both set
ConfigSet == {"NOTION_TOKEN", "DATA_SOURCE_ID"} \subseteq environ

\* the run was asked to sort the cached data only
SortOnlyRun == "--sort-only" \in argv \/ "-s" \in argv

CacheWritten ==
    /\ cache_file' # cache_file
    /\ cache_file' # <<>>
    /\ cache_file'[1].age = "fresh"

\* the raw data that the cache file holds
Cached == json_load(cache_file[1].data)

\* C16: in every step of every sequence of runs of main, the cache file is
\* written only by a run that has just fetched, with the data as fetched and
\* not yet sorted, and its data changes in no other step; a run whose data
\* comes from the cache goes on to sort without fetching or writing; and what
\* is rendered is sort_cv_data of the data that the cache holds, in the run
\* that fetched it and in the runs that load it alike.
C16_CacheHoldsRawData ==
    [][ /\ CacheWritten =>
              /\ pc = "save_cache"
              /\ cv_data \in {<<d>> : d \in NotionData}
              /\ json_load(cache_file'[1].data) = cv_data[1]
        /\ (cache_file' # cache_file /\ ~CacheWritten) =>
              /\ cache_file # <<>> /\ cache_file' # <<>>
              /\ cache_file'[1].data = cache_file[1].data
        /\ (pc' = "save_cache" /\ pc' # pc) =>
              /\ pc = "loaded_or_none" /\ cv_data = <<>>
              /\ cv_data' \in {<<d>> : d \in NotionData}
        /\ (pc \in {"sort_only", "check_cache"} /\ cv_data' # <<>>) =>
              /\ cv_data' = <<Cached>>
              /\ cache_file' = cache_file
        /\ (pc = "loaded_or_none" /\ cv_data # <<>> /\ pc' # pc) =>
              /\ pc' = "sort"
              /\ cv_data' = cv_data
              /\ cache_file' = cache_file
        /\ ((pc = "render" /\ pc' # pc) \/ out_file' # out_file) =>
              /\ pc = "render"
              /\ cache_file # <<>>
              /\ out_file' = <<sort_cv_data(Cached)>>
      ]_vars

\* a sort-only run has rendered the sorted entries of a cache that holds them
\* unsorted
C16_Witness ==
    /\ pc = "returned"
    /\ status = 0
    /\ SortOnlyRun
    /\ cache_file # <<>>
    /\ sort_cv_data(Cached) # Cached
    /\ out_file = <<sort_cv_data(Cached)>>

============================================================================
